---- MODULE Spec2Model ----
(***************************************************************************)
(* PeriodicDataLoader (src/src/periodicDataLoader.ts): a loader that       *)
(* queues keys, flushes the queue to a batch load function from a one-shot *)
(* timer, settles every caller's promise from the batch result and         *)
(* optionally memoizes successful values in a cache map.                   *)
(*                                                                         *)
(* One action is one run-to-completion step of the JavaScript event loop:  *)
(* a public call, the timer callback up to its await, or the continuation  *)
(* of execute/executeUnique after loadFn's promise has settled.            *)
(***************************************************************************)
EXTENDS Integers, Sequences, FiniteSets

\* ------------------------------------------------------------------ bounds
MaxReq == 3          \* loadSingle invocations over a run
MaxBatch == 2        \* flushes over a run
MaxClears == 1       \* clearCache / clearCacheMultiple / clearCacheAll calls over a run

\* ------------------------------------------------------------ input domains
Keys == {1, 2}                       \* TKey values the callers use
KeyLists == {<<k1, k2>> : k1 \in Keys, k2 \in Keys}   \* loadMultiple arguments

\* The loader never inspects a value loadFn returns beyond `instanceof Error`,
\* so a slot's content is named after the loadFn call b and the slot i it came
\* in: a TValue or an Error.
Value(b, i) == [kind |-> "value", call |-> b, slot |-> i]
Error(b, i) == [kind |-> "Error", call |-> b, slot |-> i]

\* new Error(`Number of values load function returned does not match that of
\* keys provided.`)
ArityError == [kind |-> "Error", call |-> 0, slot |-> 0]
\* values[i] read past the end of the array
Undefined == [kind |-> "undefined", call |-> 0, slot |-> 0]
\* the value of a promise that has not settled
NoValue == [kind |-> "none", call |-> 0, slot |-> 0]

VARIABLES
    instance,           \* what `new PeriodicDataLoader(opts)` has produced: "none"
                        \* before the call, "ready" for the instance, or the
                        \* message of the Error thrown
    batchInterval,      \* this.batchInterval
    cache,              \* this.cache
    unique,             \* this.unique
    cacheMap,           \* this.cacheMap: a function from the keys it has to values
    timeAfterLastExecution,
                        \* Date.now() - this.lastExecutionTime, counted up to
                        \* batchInterval (the code reads the clock only to form
                        \* Math.max(batchInterval - timeAfterLastExecution, 0),
                        \* which is 0 from batchInterval on)
    sinceRequest,       \* time since the latest loadSingle, counted up to
                        \* batchInterval (history)
    pendingKeys,        \* this.pendingKeys: ids of the queued IPendingKey, in order
    timers,             \* setTimeout registrations not yet fired: the delay left
    requests,           \* every promise loadSingle created, by id (history)
    batches,            \* every execute/executeUnique invocation (history); ended
                        \* is the number of loadSingle calls made before loadFn's
                        \* promise settled
    calls,              \* every loadMultiple invocation (history)
    log,                \* reject/resolve/set calls made by flushes, in order (history)
    clears,             \* cache clearing calls made so far (history)
    evicted,            \* keys cleared from the cache while a promise for them was
                        \* unsettled, and not requested since (history)
    resolvedKeys        \* keys a flush resolved and no clear touched since (history)

vars == <<instance, batchInterval, cache, unique, cacheMap, timeAfterLastExecution, sinceRequest,
          pendingKeys, timers, requests, batches, calls, log, clears, evicted,
          resolvedKeys>>

config == <<instance, batchInterval, cache, unique>>

\* ----------------------------------------------------------------- helpers
Max(a, b) == IF a >= b THEN a ELSE b
Min(a, b) == IF a <= b THEN a ELSE b

Range(s) == {s[i] : i \in 1..Len(s)}

RemoveAtRepeating(s, i) == s
RemoveAt(s, i) == [j \in 1..(Len(s) - 1) |-> IF j < i THEN s[j] ELSE s[j + 1]]

\* value instanceof Error
IsError(v) == v.kind = "Error"

\* Map.prototype.set / delete / clear on the cache map
MapSet(m, k, v) == [x \in (DOMAIN m) \cup {k} |-> IF x = k THEN v ELSE m[x]]
MapDeleteAll(m, ks) == [x \in {} |-> m[x]]
MapDelete(m, ks) == [x \in (DOMAIN m) \ ks |-> m[x]]
EmptyMap == [x \in {} |-> NoValue]

\* values[i] of a JavaScript array: undefined past its end
SlotValueRev(values, i) ==
    IF i <= Len(values) THEN values[Len(values) + 1 - i] ELSE Undefined
SlotValue(values, i) == IF i <= Len(values) THEN values[i] ELSE Undefined

\* The result sequences loadFn may produce for n keys: one value or Error per
\* slot, of the right length, one shorter or one longer.
Results(b, n) ==
    UNION { {[i \in 1..m |-> IF i \in bad THEN Error(b, i) ELSE Value(b, i)] :
                bad \in SUBSET (1..Min(m, n))} : m \in {n - 1, n, n + 1} \cap Nat }

\* ----------------------------------------------------------- request intake
\* const targetDelay = Math.max(this.batchInterval - timeAfterLastExecution, 0)
TargetDelayNone == Min(batchInterval - timeAfterLastExecution, 0)
TargetDelayFull == batchInterval
TargetDelayLate == Max(batchInterval + timeAfterLastExecution, 0)
TargetDelay == Max(batchInterval - timeAfterLastExecution, 0)

\* addToPendingKeys: the queue and the timers after pushing request id
ArmsTimerWhenIdle(queue) ==
    Len(queue) = 0 /\ \A b \in 1..Len(batches) : batches[b].status # "inflight"
ArmsTimerAlways(queue) == TRUE
ArmsTimerUnlessFailed(queue) ==
    Len(queue) = 0 /\ \A b \in 1..Len(batches) : batches[b].status # "failed"
ArmsTimer(queue) == Len(queue) = 0

QueueAfterPushAtFront(queue, id) == <<id>> \o queue
QueueAfterPush(queue, id) == Append(queue, id)
TimersAfterPush(queue, tms) ==
    IF ArmsTimer(queue) THEN Append(tms, TargetDelay) ELSE tms

\* The promise loadSingle(key) makes, given the cache map and queue it finds:
\* resolved at once from the cache, or left to addToPendingKeys. The history
\* fields: age (time spent in the queue, counted up to batchInterval + 1), late
\* (flushed after more than batchInterval in the queue), close (issued less than
\* batchInterval after the loadSingle before it), seen (length of the log when
\* issued), batch (the flush that drained it), opener (the request at the head
\* of the queue it was pushed on), quiet (no loadFn call outstanding when
\* issued), afterEvict and afterResolve (key in evicted / resolvedKeys when
\* issued), nResolve and nReject (calls of its resolve and reject).
NewRequest(key, call, idx, cm, queue, id) ==
    LET hit == cache /\ key \in DOMAIN cm IN
    [ key |-> key, call |-> call, idx |-> idx,
      age |-> 0, late |-> FALSE,
      close |-> id > 1 /\ (IF id > Len(requests) + 1 THEN 0 ELSE sinceRequest)
                                < batchInterval,
      seen |-> Len(log),
      cached |-> hit,
      state |-> IF hit THEN "resolved" ELSE "pending",
      val |-> IF hit THEN cm[key] ELSE NoValue,
      nResolve |-> IF hit THEN 1 ELSE 0,
      nReject |-> 0,
      batch |-> 0,
      opener |-> IF hit THEN 0 ELSE IF Len(queue) > 0 THEN queue[1] ELSE id,
      quiet |-> \A b \in 1..Len(batches) : batches[b].status # "inflight",
      afterEvict |-> key \in evicted,
      afterResolve |-> key \in resolvedKeys ]

\* loadSingle: `return` after resolve(this.cacheMap.get(key)), so that
\* addToPendingKeys is not reached.
CacheHitReturnsNever(r) == FALSE
CacheHitReturns(r) == r.cached

\* keys.map((key) => this.loadSingle(key)): the loadSingle calls run one after
\* the other inside the caller's step. st = <<requests, pendingKeys, timers>>.
RECURSIVE LoadAll(_, _, _, _)
LoadAll(keys, call, i, st) ==
    IF i > Len(keys) THEN st
    ELSE LET id == Len(st[1]) + 1
             r == NewRequest(keys[i], call, i, cacheMap, st[2], id)
         IN LoadAll(keys, call, i + 1,
                IF CacheHitReturns(r) THEN <<Append(st[1], r), st[2], st[3]>>
                ELSE <<Append(st[1], r), QueueAfterPush(st[2], id),
                       TimersAfterPush(st[2], st[3])>>)

LoadSingleFlushingAtOnce(key) ==
    /\ Len(requests) < MaxReq
    /\ LET st == LoadAll(<<key>>, 0, 1, <<requests, pendingKeys, timers>>)
           id == Len(requests) + 1
           b == Len(batches) + 1
           atOnce == /\ st[2] = <<id>>
                     /\ TargetDelay = 0
                     /\ Len(batches) < MaxBatch
       IN /\ requests' = IF atOnce THEN [st[1] EXCEPT ![id].batch = b] ELSE st[1]
          /\ pendingKeys' = IF atOnce THEN <<>> ELSE st[2]
          /\ timers' = IF atOnce THEN timers ELSE st[3]
          /\ batches' = IF atOnce
                        THEN Append(batches,
                                 [reqs |-> <<id>>,
                                  groups |-> <<[key |-> key, reqs |-> <<id>>]>>,
                                  keys |-> <<key>>, gap |-> timeAfterLastExecution,
                                  status |-> "inflight", values |-> <<>>, ended |-> 0])
                        ELSE batches
    /\ evicted' = evicted \ {key}
    /\ sinceRequest' = 0
    /\ UNCHANGED <<clears, config, cacheMap, timeAfterLastExecution, calls, log,
                   resolvedKeys>>
LoadSingle(key) ==
    /\ Len(requests) < MaxReq
    /\ LET st == LoadAll(<<key>>, 0, 1, <<requests, pendingKeys, timers>>) IN
        /\ requests' = st[1]
        /\ pendingKeys' = st[2]
        /\ timers' = st[3]
    /\ evicted' = evicted \ {key}
    /\ sinceRequest' = 0
    /\ UNCHANGED <<clears, config, cacheMap, timeAfterLastExecution, batches, calls, log,
                   resolvedKeys>>

LoadMultiple(keys) ==
    /\ Len(requests) + Len(keys) <= MaxReq
    /\ LET st == LoadAll(keys, Len(calls) + 1, 1, <<requests, pendingKeys, timers>>) IN
        /\ requests' = st[1]
        /\ pendingKeys' = st[2]
        /\ timers' = st[3]
        /\ calls' = Append(calls,
               [keys |-> keys,
                reqs |-> [i \in 1..Len(keys) |-> Len(requests) + i]])
    /\ evicted' = evicted \ Range(keys)
    /\ sinceRequest' = 0
    /\ UNCHANGED <<clears, config, cacheMap, timeAfterLastExecution, batches, log,
                   resolvedKeys>>

\* ---------------------------------------------------------- cache management
\* Some promise for key k is not settled yet.
Awaited(k) == \E r \in 1..Len(requests) : requests[r].key = k /\ requests[r].state = "pending"

ClearKeysAndQueue(ks) ==
    /\ clears < MaxClears
    /\ clears' = clears + 1
    /\ cacheMap' = IF cache THEN MapDelete(cacheMap, ks) ELSE cacheMap
    /\ evicted' = IF cache THEN evicted \cup {k \in ks : Awaited(k)} ELSE evicted
    /\ resolvedKeys' = IF cache THEN resolvedKeys \ ks ELSE resolvedKeys
    /\ pendingKeys' = <<>>
    /\ UNCHANGED <<config, timeAfterLastExecution, sinceRequest, timers,
                   requests, batches, calls, log>>
ClearKeys(ks) ==
    /\ clears < MaxClears
    /\ clears' = clears + 1
    /\ cacheMap' = IF cache THEN MapDelete(cacheMap, ks) ELSE cacheMap
    /\ evicted' = IF cache THEN evicted \cup {k \in ks : Awaited(k)} ELSE evicted
    /\ resolvedKeys' = IF cache THEN resolvedKeys \ ks ELSE resolvedKeys
    /\ UNCHANGED <<config, timeAfterLastExecution, sinceRequest, pendingKeys, timers,
                   requests, batches, calls, log>>

ClearCache(key) == ClearKeys({key})

ClearCacheMultiple(keys) == ClearKeys(Range(keys))

ClearCacheAll == ClearKeys(Keys)

\* -------------------------------------------------------------------- flush
\* const targetPendingKeys = this.pendingKeys.splice(0)
DrainedHead(queue) == IF Len(queue) = 0 THEN queue ELSE <<Head(queue)>>
Drained(queue) == queue

\* execute: const targetKeys = targetPendingKeys.map((tpk) => tpk.key), every
\* pending key its own slot.
ExecuteGroupsReversed(tpks) ==
    [i \in 1..Len(tpks) |->
        [key |-> requests[tpks[Len(tpks) + 1 - i]].key, reqs |-> <<tpks[Len(tpks) + 1 - i]>>]]
ExecuteGroups(tpks) ==
    [i \in 1..Len(tpks) |-> [key |-> requests[tpks[i]].key, reqs |-> <<tpks[i]>>]]

\* executeUnique: mergedTargetPendingKeys, a Map in insertion order from each
\* key to the resolves and rejects of the pending keys that asked for it.
RECURSIVE Merge(_, _, _)
Merge(tpks, i, acc) ==
    IF i > Len(tpks) THEN acc
    ELSE LET k == requests[tpks[i]].key
             pos == {j \in 1..Len(acc) : acc[j].key = k}
         IN IF pos # {}
            THEN Merge(tpks, i + 1,
                     [acc EXCEPT ![CHOOSE j \in pos : TRUE].reqs = Append(@, tpks[i])])
            ELSE Merge(tpks, i + 1, Append(acc, [key |-> k, reqs |-> <<tpks[i]>>]))

ExecuteUniqueGroupsNoMerge(tpks) ==
    [i \in 1..Len(tpks) |-> [key |-> requests[tpks[i]].key, reqs |-> <<tpks[i]>>]]
ExecuteUniqueGroups(tpks) == Merge(tpks, 1, <<>>)

Groups(tpks) == IF unique THEN ExecuteUniqueGroups(tpks) ELSE ExecuteGroups(tpks)

Ev(type, req, key, val) == [type |-> type, req |-> req, key |-> key, val |-> val]

RECURSIVE Flatten(_)
Flatten(ss) == IF Len(ss) = 0 THEN <<>> ELSE Head(ss) \o Flatten(Tail(ss))

\* if (targetKeys.length !== values.length) { ... reject(new Error(...)) ... }
ArityEventsByRequests(groups, values) ==
    IF Len(Flatten([g \in 1..Len(groups) |-> groups[g].reqs])) # Len(values)
    THEN Flatten([g \in 1..Len(groups) |->
             [j \in 1..Len(groups[g].reqs) |->
                 Ev("reject", groups[g].reqs[j], groups[g].key, ArityError)]])
    ELSE <<>>
NoArityEvents(groups, values) == <<>>
ArityEvents(groups, values) ==
    IF Len(groups) # Len(values)
    THEN Flatten([g \in 1..Len(groups) |->
             [j \in 1..Len(groups[g].reqs) |->
                 Ev("reject", groups[g].reqs[j], groups[g].key, ArityError)]])
    ELSE <<>>

\* One turn of the loop over the slots: reject every promise of the key with
\* the Error in its slot, or set the cache and resolve every promise of the key.
SlotEventsNoCache(group, value) ==
    [j \in 1..Len(group.reqs) |->
        Ev(IF IsError(value) THEN "reject" ELSE "resolve", group.reqs[j], group.key, value)]
SlotEventsLastFirst(group, value) ==
    LET n == Len(group.reqs) IN
    IF IsError(value)
    THEN [j \in 1..n |-> Ev("reject", group.reqs[n + 1 - j], group.key, value)]
    ELSE (IF cache THEN <<Ev("set", 0, group.key, value)>> ELSE <<>>)
         \o [j \in 1..n |-> Ev("resolve", group.reqs[n + 1 - j], group.key, value)]
SlotEventsByKey(group, value) ==
    LET rs == SelectSeq([r \in 1..Len(requests) |-> r],
                        LAMBDA r : requests[r].key = group.key /\ requests[r].batch # 0)
    IN IF IsError(value)
       THEN [j \in 1..Len(rs) |-> Ev("reject", rs[j], group.key, value)]
       ELSE (IF cache THEN <<Ev("set", 0, group.key, value)>> ELSE <<>>)
            \o [j \in 1..Len(rs) |-> Ev("resolve", rs[j], group.key, value)]
SlotEventsDropErrors(group, value) ==
    IF IsError(value)
    THEN <<>>
    ELSE (IF cache THEN <<Ev("set", 0, group.key, value)>> ELSE <<>>)
         \o [j \in 1..Len(group.reqs) |-> Ev("resolve", group.reqs[j], group.key, value)]
SlotEventsAllResolve(group, value) ==
    (IF cache THEN <<Ev("set", 0, group.key, value)>> ELSE <<>>)
    \o [j \in 1..Len(group.reqs) |-> Ev("resolve", group.reqs[j], group.key, value)]
SlotEvents(group, value) ==
    IF IsError(value)
    THEN [j \in 1..Len(group.reqs) |-> Ev("reject", group.reqs[j], group.key, value)]
    ELSE (IF cache THEN <<Ev("set", 0, group.key, value)>> ELSE <<>>)
         \o [j \in 1..Len(group.reqs) |-> Ev("resolve", group.reqs[j], group.key, value)]

\* Everything execute/executeUnique does after `await this.loadFn(targetKeys)`
\* has produced values: the arity check, then the loop over the slots.
FlushEvents(groups, values) ==
    ArityEvents(groups, values)
    \o Flatten([g \in 1..Len(groups) |-> SlotEvents(groups[g], SlotValue(values, g))])

\* resolve(value) / reject(reason) of a promise: only the first call settles it.
Settle(r, e) ==
    IF e.type = "resolve"
    THEN [r EXCEPT !.nResolve = @ + 1,
                   !.state = IF r.state = "pending" THEN "resolved" ELSE @,
                   !.val = IF r.state = "pending" THEN e.val ELSE @]
    ELSE [r EXCEPT !.nReject = @ + 1,
                   !.state = IF r.state = "pending" THEN "rejected" ELSE @,
                   !.val = IF r.state = "pending" THEN e.val ELSE @]

RECURSIVE ApplyToRequests(_, _, _)
ApplyToRequests(rs, events, i) ==
    IF i > Len(events) THEN rs
    ELSE ApplyToRequests(
             IF events[i].type = "set" THEN rs
             ELSE [rs EXCEPT ![events[i].req] = Settle(@, events[i])],
             events, i + 1)

RECURSIVE ApplyToCacheKeepingFirst(_, _, _)
ApplyToCacheKeepingFirst(cm, events, i) ==
    IF i > Len(events) THEN cm
    ELSE ApplyToCacheKeepingFirst(
             IF events[i].type = "set" /\ events[i].key \notin DOMAIN cm
             THEN MapSet(cm, events[i].key, events[i].val)
             ELSE cm,
             events, i + 1)
RECURSIVE ApplyToCache(_, _, _)
ApplyToCache(cm, events, i) ==
    IF i > Len(events) THEN cm
    ELSE ApplyToCache(
             IF events[i].type = "set" THEN MapSet(cm, events[i].key, events[i].val)
             ELSE cm,
             events, i + 1)

\* this.lastExecutionTime = Date.now(): the time since the last execution is
\* 0 again.
ElapsedWithoutStamp == timeAfterLastExecution
ElapsedAfterStamp == 0

\* The timer callback up to the await: drain the queue, stamp the time, call
\* loadFn with the keys.
TimerFire(i) ==
    /\ i \in 1..Len(timers)
    /\ timers[i] = 0
    /\ Len(batches) < MaxBatch
    /\ timers' = RemoveAt(timers, i)
    /\ LET tpks == Drained(pendingKeys)
           groups == Groups(tpks)
           b == Len(batches) + 1
       IN /\ pendingKeys' = SubSeq(pendingKeys, Len(tpks) + 1, Len(pendingKeys))
          /\ batches' = Append(batches,
                 [reqs |-> tpks, groups |-> groups,
                  keys |-> [g \in 1..Len(groups) |-> groups[g].key],
                  gap |-> timeAfterLastExecution,
                  status |-> "inflight", values |-> <<>>, ended |-> 0])
          /\ requests' = [r \in 1..Len(requests) |->
                 IF r \in Range(tpks)
                 THEN [requests[r] EXCEPT !.batch = b, !.age = 0,
                                          !.late = requests[r].age > batchInterval]
                 ELSE requests[r]]
    /\ timeAfterLastExecution' = ElapsedAfterStamp
    /\ UNCHANGED <<clears, config, cacheMap, sinceRequest, calls, log, evicted, resolvedKeys>>

\* loadFn's promise fulfils with values: the rest of execute/executeUnique runs.
FetchReturnWith(b, values) ==
    /\ b \in 1..Len(batches)
    /\ batches[b].status = "inflight"
    /\  LET events == FlushEvents(batches[b].groups, values)
            after == ApplyToRequests(requests, events, 1)
        IN /\ requests' = after
           /\ cacheMap' = ApplyToCache(cacheMap, events, 1)
           /\ log' = log \o [j \in 1..Len(events) |->
                  [batch |-> b, type |-> events[j].type, req |-> events[j].req,
                   key |-> events[j].key, val |-> events[j].val]]
           /\ batches' = [batches EXCEPT ![b].status = "returned", ![b].values = values,
                                         ![b].ended = Len(requests)]
           /\ resolvedKeys' =
                  IF cache
                  THEN resolvedKeys \cup
                       {requests[r].key : r \in {x \in Range(batches[b].reqs) :
                            requests[x].state = "pending" /\ after[x].state = "resolved"}}
                  ELSE resolvedKeys
    /\ UNCHANGED <<clears, config, timeAfterLastExecution, sinceRequest, pendingKeys, timers,
                   calls, evicted>>

FetchReturn(b) ==
    \E values \in Results(b, Len(batches[b].keys)) : FetchReturnWith(b, values)

\* loadFn answers every key with a value, as the test suite's loadFn does.
FetchEcho(b) ==
    FetchReturnWith(b, [i \in 1..Len(batches[b].keys) |-> Value(b, i)])

\* loadFn throws or its promise rejects: the await throws, execute's own promise
\* rejects, and nothing after the await runs.
FetchFail(b) ==
    /\ b \in 1..Len(batches)
    /\ batches[b].status = "inflight"
    /\ batches' = [batches EXCEPT ![b].status = "failed", ![b].ended = Len(requests)]
    /\ UNCHANGED <<clears, config, cacheMap, timeAfterLastExecution, sinceRequest, pendingKeys,
                   timers, requests, calls, log, evicted, resolvedKeys>>

\* One unit of time passes. A timer fires when its delay has elapsed, so time
\* does not pass a timer that is due. A queued request's age is counted up to
\* batchInterval + 1.
Tick ==
    /\ \A i \in 1..Len(timers) : timers[i] > 0
    /\ timers' = [i \in 1..Len(timers) |-> timers[i] - 1]
    /\ timeAfterLastExecution' = Min(timeAfterLastExecution + 1, batchInterval)
    /\ sinceRequest' = Min(sinceRequest + 1, batchInterval)
    /\ requests' = [r \in 1..Len(requests) |->
           IF r \in Range(pendingKeys)
           THEN [requests[r] EXCEPT !.age = Min(@ + 1, batchInterval + 1)]
           ELSE requests[r]]
    /\ UNCHANGED <<clears, config, cacheMap, pendingKeys, batches, calls, log, evicted,
                   resolvedKeys>>

\* ------------------------------------------------------------ specification
\* The state the constructor leaves, for every accepted option object: the
\* cache map is supplied (empty) when cache is true.
InitWith(interval) ==
    /\ instance = "ready"
    /\ batchInterval = interval
    /\ cache \in BOOLEAN
    /\ unique \in BOOLEAN
    /\ cacheMap = EmptyMap
    /\ timeAfterLastExecution = 0
    /\ sinceRequest = 0
    /\ pendingKeys = <<>>
    /\ timers = <<>>
    /\ requests = <<>>
    /\ batches = <<>>
    /\ calls = <<>>
    /\ log = <<>>
    /\ evicted = {}
    /\ resolvedKeys = {}
    /\ clears = 0

DoLoadSingle == \E key \in Keys : LoadSingle(key)
DoLoadMultiple == \E keys \in KeyLists : LoadMultiple(keys)
DoClearCache == \E key \in Keys : ClearCache(key)
DoClearCacheMultiple == \E keys \in KeyLists : ClearCacheMultiple(keys)
DoTimerFire == \E i \in 1..Len(timers) : TimerFire(i)
DoFetchReturn == \E b \in 1..Len(batches) : FetchReturn(b)
DoFetchFail == \E b \in 1..Len(batches) : FetchFail(b)

Next ==
    \/ DoLoadSingle
    \/ DoLoadMultiple
    \/ DoClearCache
    \/ DoClearCacheMultiple
    \/ ClearCacheAll
    \/ DoTimerFire
    \/ DoFetchReturn
    \/ DoFetchFail
    \/ Tick

\* Every operation, every loadFn outcome. batchInterval is 0: every timer is due
\* at once, and fires after any number of further calls.
Init == InitWith(0)

Spec == Init /\ [][Next]_vars

\* The loader over time: batchInterval is 2 and loadFn answers every key.
DoFetchEcho == \E b \in 1..Len(batches) : FetchEcho(b)

InitTimed == InitWith(2)

NextTimed ==
    \/ DoLoadSingle
    \/ DoLoadMultiple
    \/ DoClearCache
    \/ DoClearCacheMultiple
    \/ ClearCacheAll
    \/ DoTimerFire
    \/ DoFetchEcho
    \/ Tick

SpecTimed == InitTimed /\ [][NextTimed]_vars

\* ------------------------------------------------------------- constructor
\* An optional boolean of the option object, and the optional cacheMap: a Map
\* (empty) or left out.
OptionalBoolean == {"undefined", "false", "true"}
OptionalMap == {"undefined", "Map"}

Options == [batchInterval : {0}, cache : OptionalBoolean, cacheMap : OptionalMap,
            unique : OptionalBoolean]

\* opts.cache || false, opts.unique || false
OrFalse(x) == x = "true"

\* new Error(`Caching is set to true, but no cache map provided.`)
ConfigError == "Caching is set to true, but no cache map provided."

\* if (this.cache === true) { if (this.cacheMap === undefined) { throw ... } }
ConstructorThrowsWithoutMap(opts) == opts.cacheMap = "undefined"
ConstructorThrows(opts) == OrFalse(opts.cache) = TRUE /\ opts.cacheMap = "undefined"

\* new PeriodicDataLoader(opts): the fields are assigned, then the check is made.
Constructor(opts) ==
    /\ instance = "none"
    /\ batchInterval' = opts.batchInterval
    /\ timeAfterLastExecution' = 0
    /\ cache' = OrFalse(opts.cache)
    /\ cacheMap' = EmptyMap
    /\ unique' = OrFalse(opts.unique)
    /\ instance' = IF ConstructorThrows(opts) THEN ConfigError ELSE "ready"
    /\ UNCHANGED <<sinceRequest, pendingKeys, timers, requests, batches, calls, log,
                   clears, evicted, resolvedKeys>>

DoConstructor == \E opts \in Options : Constructor(opts)

\* The loader from before its construction: the calls are made on the instance
\* the constructor returned, if it returned one. loadFn answers every key.
InitNew ==
    /\ instance = "none"
    /\ batchInterval = 0
    /\ cache = FALSE
    /\ unique = FALSE
    /\ cacheMap = EmptyMap
    /\ timeAfterLastExecution = 0
    /\ sinceRequest = 0
    /\ pendingKeys = <<>>
    /\ timers = <<>>
    /\ requests = <<>>
    /\ batches = <<>>
    /\ calls = <<>>
    /\ log = <<>>
    /\ evicted = {}
    /\ resolvedKeys = {}
    /\ clears = 0

NextNew ==
    \/ DoConstructor
    \/ instance = "ready" /\ DoLoadSingle
    \/ instance = "ready" /\ DoClearCache
    \/ instance = "ready" /\ DoTimerFire
    \/ instance = "ready" /\ DoFetchEcho

SpecNew == InitNew /\ [][NextNew]_vars

\* loadFn's promise for batch b has not settled yet.
Inflight(b) == b \in 1..Len(batches) /\ batches[b].status = "inflight"

\* The loader under the scheduling it relies on: the event loop runs the
\* callback of a timer that is due, and the caller's loadFn answers every call
\* with a result sequence of some length. batchInterval is 0, so a timer is due
\* from the moment it is armed.
NextLive ==
    \/ DoLoadSingle
    \/ DoLoadMultiple
    \/ DoClearCache
    \/ DoClearCacheMultiple
    \/ ClearCacheAll
    \/ DoTimerFire
    \/ DoFetchReturn

SpecLive ==
    /\ Init
    /\ [][NextLive]_vars
    /\ WF_vars(DoTimerFire)
    /\ \A b \in 1..MaxBatch : []<>(~Inflight(b))

\* ------------------------------------------------------------ loadMultiple
\* Promise.all(keys.map((key) => this.loadSingle(key))): rejected with the
\* reason of the first promise to reject, else resolved with the values in the
\* order of the keys once every promise is resolved.
FirstReject(r) ==
    CHOOSE j \in 1..Len(log) :
        /\ log[j].type = "reject" /\ log[j].req = r
        /\ \A h \in 1..(j - 1) : ~(log[h].type = "reject" /\ log[h].req = r)

LoadMultipleResultAllSettled(c) ==
    LET rs == calls[c].reqs IN
    IF \A i \in 1..Len(rs) : requests[rs[i]].state # "pending"
    THEN [state |-> "resolved", reason |-> NoValue,
          values |-> [i \in 1..Len(rs) |-> requests[rs[i]].val]]
    ELSE [state |-> "pending", reason |-> NoValue, values |-> <<>>]
LoadMultipleResult(c) ==
    LET rs == calls[c].reqs
        rejected == {i \in 1..Len(rs) : requests[rs[i]].state = "rejected"}
    IN IF rejected # {}
       THEN LET first == CHOOSE i \in rejected :
                    \A j \in rejected : FirstReject(rs[i]) <= FirstReject(rs[j])
            IN [state |-> "rejected", reason |-> requests[rs[first]].val, values |-> <<>>]
       ELSE IF \A i \in 1..Len(rs) : requests[rs[i]].state = "resolved"
       THEN [state |-> "resolved", reason |-> NoValue,
             values |-> [i \in 1..Len(rs) |-> requests[rs[i]].val]]
       ELSE [state |-> "pending", reason |-> NoValue, values |-> <<>>]

\* ------------------------------------------------------------------ claims
Reqs == 1..Len(requests)
Batches == 1..Len(batches)

\* The flush that drained request r has run to its end: loadFn's promise has
\* settled and whatever follows the await has run.
Processed(r) ==
    /\ requests[r].batch # 0
    /\ batches[requests[r].batch].status # "inflight"

\* loadFn answered batch b with a result of the wrong length.
Mismatched(b) ==
    /\ batches[b].status = "returned"
    /\ Len(batches[b].values) # Len(batches[b].keys)

\* C1: every request that missed the cache has, once its batch has been
\* processed, had exactly one of resolve and reject called, exactly once.
C1_SettledExactlyOnce ==
    \A r \in Reqs :
        (~requests[r].cached /\ Processed(r))
            => requests[r].nResolve + requests[r].nReject = 1

\* C2: when loadFn fails outright for a batch, every request drained into the
\* batch is rejected.
C2_FetchFailureRejectsAll ==
    \A b \in Batches :
        batches[b].status = "failed"
            => \A r \in Range(batches[b].reqs) : requests[r].state = "rejected"

\* C3: when loadFn's result is shorter or longer than the key list, every
\* request of the batch ends rejected with the arity error, none with a value.
C3_ArityMismatchRejectsAll ==
    \A b \in Batches :
        Mismatched(b)
            => \A r \in Range(batches[b].reqs) :
                   /\ requests[r].state = "rejected"
                   /\ requests[r].val = ArityError

\* C3 happens: a mismatched result for two or more requests whose first slot
\* holds a value, so the loop after the arity check goes on to call resolve.
C3_Witness ==
    \E b \in Batches :
        /\ Mismatched(b)
        /\ Len(batches[b].reqs) >= 2
        /\ Len(batches[b].values) >= 1
        /\ ~IsError(batches[b].values[1])

\* C4: a request that misses the cache is flushed no later than batchInterval
\* after it was issued: it never waits in the queue for longer, and the flush
\* that drains it finds it no older.
C4_FlushedWithinInterval ==
    \A r \in Reqs :
        ~requests[r].cached
            => /\ ~requests[r].late
               /\ requests[r].age <= batchInterval

\* C4 happens: a request that joined an open queue after time had passed has
\* been flushed with it.
C4_Witness ==
    \E r \in Reqs :
        /\ requests[r].batch # 0
        /\ requests[r].opener # r
        /\ ~requests[r].close

\* C5 as stated: two requests issued one after the other, less than
\* batchInterval apart and with no loadFn call outstanding, go out in the same
\* loadFn call.
C5_CloseRequestsShareFetch ==
    \A r \in Reqs :
        (/\ r > 1
         /\ requests[r].close
         /\ requests[r].quiet /\ requests[r - 1].quiet
         /\ ~requests[r].cached /\ ~requests[r - 1].cached)
            => requests[r].batch = requests[r - 1].batch

\* C5 amended: the requests pushed on a queue from the one that opens it until
\* its timer fires go out in one loadFn call and in no other, and with unique
\* off the call's keys are theirs in arrival order, duplicates included.
C5_OpenQueueSharesFetch ==
    /\ \A r \in Reqs :
           ~requests[r].cached
               => requests[r].batch = requests[requests[r].opener].batch
    /\ \A b \in Batches :
           LET rs == batches[b].reqs IN
           /\ Range(rs) = {r \in Reqs : requests[r].batch = b}
           /\ \A i \in 1..Len(rs), j \in 1..Len(rs) : i < j => rs[i] < rs[j]
           /\ \A c \in Batches : c # b => Range(batches[c].reqs) \cap Range(rs) = {}
           /\ ~unique => batches[b].keys = [i \in 1..Len(rs) |-> requests[rs[i]].key]

\* C5 happens: with unique off, a request joined the queue another request for
\* the same key had opened, and both went out together.
C5_Witness ==
    /\ ~unique
    /\ \E r \in Reqs :
           /\ requests[r].batch # 0
           /\ requests[r].opener # r
           /\ requests[r].key = requests[requests[r].opener].key
           /\ requests[r].batch = requests[requests[r].opener].batch

\* The position in batch b's requests of the first one that asks for key k.
FirstSeen(b, k) ==
    CHOOSE i \in 1..Len(batches[b].reqs) :
        /\ requests[batches[b].reqs[i]].key = k
        /\ \A j \in 1..(i - 1) : requests[batches[b].reqs[j]].key # k

\* C6: with unique on, loadFn gets every distinct key of the batch once, in
\* first-seen order, and the requests of one key all end the same way: the same
\* value or the same error.
C6_UniqueFetchAndOutcome ==
    unique =>
        \A b \in Batches :
            LET ks == batches[b].keys
                rs == batches[b].reqs
            IN /\ \A i \in 1..Len(ks), j \in 1..Len(ks) : i # j => ks[i] # ks[j]
               /\ Range(ks) = {requests[r].key : r \in Range(rs)}
               /\ \A i \in 1..Len(ks), j \in 1..Len(ks) :
                      i < j => FirstSeen(b, ks[i]) < FirstSeen(b, ks[j])
               /\ batches[b].status = "returned"
                      => \A r1 \in Range(rs), r2 \in Range(rs) :
                             requests[r1].key = requests[r2].key
                                 => /\ requests[r1].state = requests[r2].state
                                    /\ requests[r1].state # "pending"
                                    /\ requests[r1].val = requests[r2].val

\* C6 happens: with unique on, three requests for two keys, the repeated key
\* first, were answered by a result of the right length.
C6_Witness ==
    /\ unique
    /\ \E b \in Batches :
           /\ batches[b].status = "returned"
           /\ Len(batches[b].reqs) = 3
           /\ Len(batches[b].keys) = 2
           /\ Len(batches[b].values) = 2
           /\ requests[batches[b].reqs[1]].key = requests[batches[b].reqs[3]].key

\* The value the cache map held for request r's key when r was issued: the one
\* the latest cacheMap.set before it stored.
CachedValueFor(r) ==
    LET sets == {j \in 1..requests[r].seen :
                     log[j].type = "set" /\ log[j].key = requests[r].key}
    IN IF sets = {} THEN NoValue
       ELSE log[CHOOSE j \in sets : \A h \in sets : h <= j].val

\* C7: with the cache on, a key a flush has resolved stays in the cache map
\* until it is cleared, and a loadSingle for it before that is resolved at once
\* with the cached value and is in no queue and no loadFn call.
C7_CachedAfterResolve ==
    cache =>
        /\ resolvedKeys \subseteq DOMAIN cacheMap
        /\ \A r \in Reqs :
               requests[r].afterResolve
                   => /\ requests[r].cached
                      /\ requests[r].state = "resolved"
                      /\ requests[r].val = CachedValueFor(r)
                      /\ requests[r].batch = 0
                      /\ r \notin Range(pendingKeys)
                      /\ \A b \in Batches : r \notin Range(batches[b].reqs)

\* C7 happens: a loadSingle was issued for a key that a flush had resolved and
\* that nothing had cleared since.
C7_Witness ==
    /\ cache
    /\ \E r \in Reqs : requests[r].afterResolve /\ requests[r].cached

\* C8: the first loadSingle for a key after the key was cleared from the cache
\* is not served from the cache.
C8_MissAfterEvict ==
    \A r \in Reqs : requests[r].afterEvict => ~requests[r].cached

\* The slot of loadFn's result that request r of a flushed batch is settled
\* from: with unique on the slot of its key, else its own position.
SlotOf(r) ==
    LET b == requests[r].batch IN
    IF unique
    THEN CHOOSE i \in 1..Len(batches[b].keys) : batches[b].keys[i] = requests[r].key
    ELSE CHOOSE i \in 1..Len(batches[b].reqs) : batches[b].reqs[i] = r

\* C9: a loadMultiple whose keys all succeed yields as many values as keys, the
\* i-th being the one keys[i] was resolved with: the slot of keys[i] in the
\* result of the loadFn call that carried it, or the cached value.
C9_LoadMultipleAligned ==
    \A c \in 1..Len(calls) :
        LET res == LoadMultipleResult(c)
            ks == calls[c].keys
            rs == calls[c].reqs
        IN res.state = "resolved"
               => /\ Len(res.values) = Len(ks)
                  /\ \A i \in 1..Len(ks) :
                         /\ requests[rs[i]].key = ks[i]
                         /\ res.values[i] =
                                IF requests[rs[i]].cached THEN CachedValueFor(rs[i])
                                ELSE batches[requests[rs[i]].batch].values[SlotOf(rs[i])]

\* C9 happens: a loadMultiple of two different keys was resolved from one batch
\* that also carried another call's request.
C9_Witness ==
    \E c \in 1..Len(calls) :
        /\ LoadMultipleResult(c).state = "resolved"
        /\ calls[c].keys[1] # calls[c].keys[2]
        /\ ~requests[calls[c].reqs[1]].cached
        /\ ~requests[calls[c].reqs[2]].cached
        /\ Len(batches[requests[calls[c].reqs[1]].batch].reqs) = 3

\* C10: in a result of the right length, a slot holding an Error rejects the
\* requests of that slot with it and no others; a slot holding a value resolves
\* its requests with it, after storing it in the cache map when the cache is on.
C10_PerSlotOutcome ==
    \A b \in Batches :
        (batches[b].status = "returned" /\ Len(batches[b].values) = Len(batches[b].keys))
            => \A r \in Range(batches[b].reqs) :
                   LET v == batches[b].values[SlotOf(r)] IN
                   /\ batches[b].keys[SlotOf(r)] = requests[r].key
                   /\ requests[r].val = v
                   /\ requests[r].state = IF IsError(v) THEN "rejected" ELSE "resolved"
                   /\ (cache /\ ~IsError(v))
                          => \E j \in 1..Len(log) :
                                 /\ log[j].batch = b /\ log[j].type = "set"
                                 /\ log[j].key = requests[r].key /\ log[j].val = v
                                 /\ \A h \in 1..j : ~(log[h].batch = b /\ log[h].req = r)

\* C10 happens: with the cache on, a result of the right length held an Error
\* for one request and a value for another.
C10_Witness ==
    /\ cache
    /\ \E b \in Batches :
           /\ batches[b].status = "returned"
           /\ Len(batches[b].values) = Len(batches[b].keys)
           /\ \E r1 \in Range(batches[b].reqs), r2 \in Range(batches[b].reqs) :
                  /\ requests[r1].state = "rejected"
                  /\ requests[r2].state = "resolved"

\* C11: a loadMultiple is rejected whenever the request of one of its keys is
\* rejected, with the reason of one of its rejected requests; when a right-length
\* result holds an Error in the slot of one of its keys, the reason is an Error
\* from the slot of one of its keys; and it yields values only when every one
\* of its requests is resolved.
C11_LoadMultipleRejects ==
    \A c \in 1..Len(calls) :
        LET res == LoadMultipleResult(c)
            rs == calls[c].reqs
            rejected == {i \in 1..Len(rs) : requests[rs[i]].state = "rejected"}
            failed == {i \in 1..Len(rs) :
                          /\ ~requests[rs[i]].cached
                          /\ Processed(rs[i])
                          /\ batches[requests[rs[i]].batch].status = "returned"
                          /\ ~Mismatched(requests[rs[i]].batch)
                          /\ IsError(batches[requests[rs[i]].batch].values[SlotOf(rs[i])])}
        IN /\ rejected # {}
               => /\ res.state = "rejected"
                  /\ \E i \in rejected : res.reason = requests[rs[i]].val
           /\ failed # {}
               => /\ res.state = "rejected"
                  /\ \E i \in failed :
                         res.reason = batches[requests[rs[i]].batch].values[SlotOf(rs[i])]
           /\ res.state = "resolved"
               => \A i \in 1..Len(rs) : requests[rs[i]].state = "resolved"

\* C11 happens: a loadMultiple of two keys got a right-length result with a
\* value for one key and an Error for the other.
C11_Witness ==
    \E c \in 1..Len(calls) :
        LET rs == calls[c].reqs IN
        /\ LoadMultipleResult(c).state = "rejected"
        /\ \E i \in 1..Len(rs), j \in 1..Len(rs) :
               /\ requests[rs[i]].state = "resolved"
               /\ requests[rs[j]].state = "rejected"
               /\ ~Mismatched(requests[rs[j]].batch)

\* C12: a flush whose result has the wrong length leaves the cache map alone:
\* no cacheMap.set is made by it.
C12_MismatchLeavesCache ==
    \A j \in 1..Len(log) : log[j].type = "set" => ~Mismatched(log[j].batch)

\* Batch b ended in a batch-level error: loadFn failed outright or answered
\* with a result of the wrong length.
BatchError(b) == batches[b].status = "failed" \/ Mismatched(b)

\* C13: after a batch has ended in a batch-level error, the queue is empty and
\* no timer is armed unless a request was pushed after the batch was drained; a
\* loadSingle made after the error that misses the cache waits in a queue whose
\* opener is in it, with one timer armed, goes out in a later loadFn call, and
\* is settled from its slot of that call's right-length result.
C13_UsableAfterBatchError ==
    \A b \in Batches :
        BatchError(b) =>
            /\ (\A r \in Reqs :
                    r > batches[b].reqs[Len(batches[b].reqs)] => requests[r].cached)
                   => (pendingKeys = <<>> /\ timers = <<>>)
            /\ \A r \in Reqs :
                   (r > batches[b].ended /\ ~requests[r].cached)
                       => /\ r \in Range(pendingKeys)
                              => /\ Len(timers) = 1
                                 /\ requests[r].opener \in Range(pendingKeys)
                                 /\ requests[r].batch = 0
                          /\ r \notin Range(pendingKeys)
                              => /\ requests[r].batch > b
                                 /\ r \in Range(batches[requests[r].batch].reqs)
                          /\ (/\ Processed(r)
                              /\ batches[requests[r].batch].status = "returned"
                              /\ ~Mismatched(requests[r].batch))
                              => LET v == batches[requests[r].batch].values[SlotOf(r)] IN
                                 /\ requests[r].val = v
                                 /\ requests[r].state =
                                        IF IsError(v) THEN "rejected" ELSE "resolved"

\* C13 happens: loadFn failed outright for one batch, and a loadSingle made
\* after that opened a new queue, was flushed and was resolved.
C13_Witness ==
    \E b \in Batches, r \in Reqs :
        /\ batches[b].status = "failed"
        /\ r > batches[b].ended
        /\ requests[r].opener = r
        /\ requests[r].batch > b
        /\ requests[r].state = "resolved"

\* C14: every loadSingle's promise is settled in the end, as long as the timer
\* that is to flush it may still fire within MaxBatch, and a cache hit is
\* settled by the call itself, in no queue and no batch.
C14_EventuallySettled ==
    /\ [](\A r \in Reqs :
              requests[r].cached
                  => /\ requests[r].state = "resolved"
                     /\ requests[r].batch = 0
                     /\ r \notin Range(pendingKeys))
    /\ \A r \in 1..MaxReq :
           (r \in Reqs /\ (requests[r].batch # 0 \/ Len(batches) < MaxBatch))
               ~> (r \in Reqs /\ requests[r].state # "pending")

\* C14 happens: one request was settled by a result of the wrong length, one by
\* an Error in its slot, and one from the cache.
C14_Witness ==
    \E r1 \in Reqs, r2 \in Reqs, r3 \in Reqs :
        /\ requests[r1].state = "rejected" /\ Mismatched(requests[r1].batch)
        /\ requests[r2].state # "pending" /\ requests[r2].batch # 0
        /\ ~Mismatched(requests[r2].batch)
        /\ requests[r3].cached

\* C15: a loadSingle or loadMultiple step appends to the queue exactly the new
\* requests whose key the cache map does not hold when the call is made, in call
\* order; a request whose key it holds is resolved with the cached value and
\* changes neither the queue nor the timers; the time of the last flush, the
\* batches and the cache map are left as they were; and a request served from
\* the cache is in no loadFn call.
C15_CacheHitNoEffect ==
    /\ [][Len(requests') > Len(requests) =>
             LET new == (Len(requests) + 1)..Len(requests')
                 hits == {i \in new : cache /\ requests'[i].key \in DOMAIN cacheMap}
                 n == Len(pendingKeys)
             IN /\ Len(pendingKeys') = n + Cardinality(new \ hits)
                /\ SubSeq(pendingKeys', 1, n) = pendingKeys
                /\ {pendingKeys'[j] : j \in (n + 1)..Len(pendingKeys')} = new \ hits
                /\ \A i \in (n + 1)..Len(pendingKeys'), j \in (n + 1)..Len(pendingKeys') :
                       i < j => pendingKeys'[i] < pendingKeys'[j]
                /\ (hits = new \/ n > 0) => timers' = timers
                /\ \A i \in hits :
                       /\ requests'[i].state = "resolved"
                       /\ requests'[i].val = cacheMap[requests'[i].key]
                /\ timeAfterLastExecution' = timeAfterLastExecution
                /\ batches' = batches
                /\ cacheMap' = cacheMap]_vars
    /\ [](\A r \in Reqs :
              requests[r].cached
                  => /\ requests[r].batch = 0
                     /\ \A b \in Batches : r \notin Range(batches[b].reqs))

\* C15 happens: a loadMultiple found its first key in the cache and not its
\* second, and the loadFn call that followed carried the second key alone.
C15_Witness ==
    \E c \in 1..Len(calls) :
        LET rs == calls[c].reqs IN
        /\ requests[rs[1]].cached
        /\ ~requests[rs[2]].cached
        /\ requests[rs[2]].batch # 0
        /\ batches[requests[rs[2]].batch].keys = <<requests[rs[2]].key>>

\* C16: a clearCache, clearCacheMultiple or clearCacheAll step leaves the queue,
\* the timers, the time of the last flush, the batches and every promise as they
\* were; and once a clear has been made, every request whose batch has been
\* answered is still settled from its own slot of its own batch's result.
C16_ClearLeavesPending ==
    /\ [][clears' # clears =>
             /\ pendingKeys' = pendingKeys
             /\ timers' = timers
             /\ timeAfterLastExecution' = timeAfterLastExecution
             /\ batches' = batches
             /\ requests' = requests
             /\ log' = log]_vars
    /\ [](clears > 0 =>
              \A r \in Reqs :
                  (/\ Processed(r)
                   /\ batches[requests[r].batch].status = "returned"
                   /\ ~Mismatched(requests[r].batch))
                      => LET v == batches[requests[r].batch].values[SlotOf(r)] IN
                         /\ r \in Range(batches[requests[r].batch].reqs)
                         /\ requests[r].val = v
                         /\ requests[r].state = IF IsError(v) THEN "rejected" ELSE "resolved")

\* C16 happens: with the cache on, a key was cleared while a request for it was
\* unsettled, nothing has asked for it since, and its requests have all been
\* resolved by their batches.
C16_Witness ==
    /\ cache
    /\ \E k \in evicted :
           \A r \in Reqs :
               requests[r].key = k
                   => /\ ~requests[r].cached
                      /\ Processed(r)
                      /\ requests[r].state = "resolved"

\* What a clear of the keys ks must do: with the cache off nothing at all, with
\* the cache on remove the entries of the keys in ks and no other entry, and
\* leave everything but the cache map alone.
ClearedExactly(ks) ==
    /\ cacheMap' = IF cache
                   THEN [x \in (DOMAIN cacheMap) \ ks |-> cacheMap[x]]
                   ELSE cacheMap
    /\ (cache /\ ks \cap DOMAIN cacheMap = {}) => cacheMap' = cacheMap
    /\ UNCHANGED <<config, timeAfterLastExecution, pendingKeys, timers, requests,
                   batches, calls, log>>

\* C17: with the cache off, clearCache, clearCacheMultiple and clearCacheAll
\* change nothing; with the cache on, clearCache(key) of a key the cache map
\* lacks changes nothing, clearCache(key) of a key it holds removes that entry
\* and no other, clearCacheMultiple removes the entries of its keys, and
\* clearCacheAll removes every entry. None of them fails.
C17_ClearRemovesExactly ==
    [][/\ \A key \in Keys : ClearCache(key) => ClearedExactly({key})
       /\ \A keys \in KeyLists : ClearCacheMultiple(keys) => ClearedExactly(Range(keys))
       /\ ClearCacheAll => ClearedExactly(DOMAIN cacheMap)]_vars

\* C17 happens: with the cache on, one flush stored both keys, a clear has been
\* made since, and the cache map holds exactly one of them.
C17_Witness ==
    /\ cache
    /\ clears > 0
    /\ Cardinality(DOMAIN cacheMap) = 1
    /\ \E b \in Batches :
           /\ \A j \in 1..Len(log) : log[j].type = "set" => log[j].batch = b
           /\ {log[j].key : j \in {i \in 1..Len(log) : log[i].type = "set"}} = Keys

\* C18: every loadFn call carries at least one key, the keys of the requests
\* it drained, and there are no more loadFn calls than requests that missed
\* the cache.
C18_NeverEmptyKeyList ==
    /\ \A b \in Batches :
           /\ Len(batches[b].keys) >= 1
           /\ Len(batches[b].reqs) >= 1
           /\ Range(batches[b].keys) = {requests[r].key : r \in Range(batches[b].reqs)}
    /\ Len(batches) <= Cardinality({r \in Reqs : ~requests[r].cached})

\* C18 happens: the queue was flushed, reopened by a later request and flushed
\* again, while the first loadFn call was still outstanding.
C18_Witness ==
    /\ Len(batches) >= 2
    /\ batches[1].status = "inflight"
    /\ pendingKeys = <<>>

\* C19: a constructor call given cache true and no cacheMap throws the
\* configuration error; given cache false or left out, or cache true and a
\* cacheMap, it returns the instance, with cache and unique as given; and
\* nothing is ever loaded, queued or flushed unless an instance was returned.
C19_ConstructorConfigError ==
    /\ [][\A opts \in Options :
              Constructor(opts)
                  => /\ (opts.cache = "true" /\ opts.cacheMap = "undefined")
                         => instance' = "Caching is set to true, but no cache map provided."
                     /\ (opts.cache # "true" \/ opts.cacheMap # "undefined")
                         => /\ instance' = "ready"
                            /\ cache' = (opts.cache = "true")
                            /\ unique' = (opts.unique = "true")]_vars
    /\ [](instance # "ready"
              => (requests = <<>> /\ pendingKeys = <<>> /\ timers = <<>> /\ batches = <<>>))

\* C19 happens: the constructor has thrown the configuration error.
C19_Witness == instance = ConfigError

\* C20: the queue is non-empty exactly when one timer is armed, and never is
\* more than one timer armed: an empty queue has none, and a push on a queue
\* that is not empty adds none.
C20_QueueIffOneTimer ==
    /\ Len(timers) <= 1
    /\ Len(pendingKeys) > 0 <=> Len(timers) = 1

\* C20 happens: after a flush, a request reopened the queue and another joined
\* it while its timer was still running.
C20_Witness ==
    /\ Len(batches) >= 1
    /\ Len(pendingKeys) >= 2
    /\ Len(timers) = 1
    /\ timers[1] > 0

\* The requests that missed the cache, and the last request batch b drained.
Missed == {r \in Reqs : ~requests[r].cached}
LastOf(b) == IF b = 0 THEN 0 ELSE batches[b].reqs[Len(batches[b].reqs)]

\* C21: a flush takes the whole queue: batch b holds exactly the cache-missing
\* requests made after the last one of batch b - 1 and up to its own last one,
\* and the queue holds exactly those made after the last flush, with one timer
\* armed for them. A request made while a loadFn call was outstanding is in no
\* batch drained before it was made: it waits in a queue opened after that
\* drain, or has gone out in a later batch together with the request that
\* opened its queue, and only that batch's flush calls its resolve or reject.
C21_AtomicDrain ==
    /\ \A b \in Batches :
           Range(batches[b].reqs) = {r \in Missed : LastOf(b - 1) < r /\ r <= LastOf(b)}
    /\ Range(pendingKeys) = {r \in Missed : r > LastOf(Len(batches))}
    /\ pendingKeys # <<>> => Len(timers) = 1
    /\ \A r \in Missed :
           ~requests[r].quiet
               => /\ requests[r].opener > LastOf(Len(batches)) \/ requests[r].batch # 0
                  /\ \A b \in Batches :
                         LastOf(b) < r
                             => /\ r \notin Range(batches[b].reqs)
                                /\ requests[r].opener > LastOf(b)
                                /\ \A j \in 1..Len(log) : log[j].batch = b => log[j].req # r
                  /\ requests[r].batch # 0
                         => requests[requests[r].opener].batch = requests[r].batch

\* C21 happens: a request made while the first loadFn call was outstanding went
\* out in a second call and was resolved by it, the first still outstanding.
C21_Witness ==
    \E r \in Missed :
        /\ ~requests[r].quiet
        /\ requests[r].batch = 2
        /\ requests[r].state = "resolved"
        /\ batches[1].status = "inflight"

\* C22: a loadSingle or loadMultiple step makes no loadFn call and drains
\* nothing, whatever the delay it computes: the batches are as they were, every
\* request it pushed is in the queue behind those already there, belongs to no
\* batch, and a timer is armed for the queue.
C22_FlushOnlyFromTimer ==
    [][Len(requests') > Len(requests) =>
           /\ batches' = batches
           /\ \A r \in 1..Len(requests) : requests'[r] = requests[r]
           /\ \A r \in (Len(requests) + 1)..Len(requests') :
                  ~requests'[r].cached
                      => /\ requests'[r].batch = 0
                         /\ requests'[r].state = "pending"
                         /\ \E i \in (Len(pendingKeys) + 1)..Len(pendingKeys') :
                                pendingKeys'[i] = r
                         /\ Len(timers') = 1]_vars

\* C22 happens: a request opened the queue with a delay of 0, and a second one
\* joined it before the timer's callback ran.
C22_Witness ==
    /\ batchInterval = 0
    /\ Len(pendingKeys) >= 2
    /\ timers = <<0>>
    /\ \A i \in 1..Len(pendingKeys) : requests[pendingKeys[i]].batch = 0

\* C23: every flush starts at least batchInterval after the flush before it,
\* and the first at least batchInterval after the construction.
C23_FlushesIntervalApart ==
    \A b \in Batches : batches[b].gap >= batchInterval

\* C23 happens: a second flush was made for a queue that was opened while the
\* first loadFn call was outstanding, and that call is outstanding still.
C23_Witness ==
    /\ batchInterval > 0
    /\ Len(batches) >= 2
    /\ batches[1].status = "inflight"
    /\ ~requests[batches[2].reqs[1]].quiet

\* C24: the timer armed for the queue is left with the delay
\* max(batchInterval - elapsed, 0), elapsed being the time since the last flush
\* (or the construction): from 0 to batchInterval, and 0 from batchInterval on.
\* This is so in the step that arms it, and stays so as time passes.
C24_DelayFormula ==
    \A i \in 1..Len(timers) :
        /\ timers[i] = IF timeAfterLastExecution >= batchInterval
                       THEN 0
                       ELSE batchInterval - timeAfterLastExecution
        /\ timers[i] >= 0
        /\ timers[i] <= batchInterval

\* C24 happens: a request has just been pushed on the empty queue, part of
\* batchInterval after a flush, and its timer is armed with the rest of it.
C24_Witness ==
    /\ Len(batches) >= 1
    /\ Len(pendingKeys) = 1
    /\ requests[pendingKeys[1]].age = 0
    /\ Len(timers) = 1
    /\ timers[1] > 0
    /\ timers[1] < batchInterval

\* C25: with unique off, the keys of a loadFn call are the keys of the drained
\* requests in the order they were made, duplicates kept, and when the result
\* has as many slots as there are keys the i-th request is settled from the
\* i-th slot: rejected with its Error or resolved with its value.
C25_NoDedupePositional ==
    ~unique =>
        \A b \in Batches :
            LET rs == batches[b].reqs IN
            /\ \A i \in 1..Len(rs), j \in 1..Len(rs) : i < j => rs[i] < rs[j]
            /\ batches[b].keys = [i \in 1..Len(rs) |-> requests[rs[i]].key]
            /\ (batches[b].status = "returned" /\ Len(batches[b].values) = Len(rs))
                   => \A i \in 1..Len(rs) :
                          /\ requests[rs[i]].val = batches[b].values[i]
                          /\ requests[rs[i]].state =
                                 IF IsError(batches[b].values[i]) THEN "rejected"
                                 ELSE "resolved"

\* C25 happens: with unique off, two requests for one key went out in one
\* loadFn call, and one was resolved while the other was rejected.
C25_Witness ==
    /\ ~unique
    /\ \E b \in Batches :
           \E r1 \in Range(batches[b].reqs), r2 \in Range(batches[b].reqs) :
               /\ requests[r1].key = requests[r2].key
               /\ requests[r1].state = "resolved"
               /\ requests[r2].state = "rejected"
               /\ ~Mismatched(b)

\* The number of different keys among the requests batch b drained.
DistinctKeys(b) == Cardinality({requests[r].key : r \in Range(batches[b].reqs)})

\* C26: with unique on, a result is of the right length when it has as many
\* slots as the batch has different keys, however many requests there are: its
\* requests are then settled from the slots of their keys; with any other
\* length they are all rejected with the arity error.
C26_ArityAgainstDistinctKeys ==
    unique =>
        \A b \in Batches :
            batches[b].status = "returned"
                => IF Len(batches[b].values) = DistinctKeys(b)
                   THEN \A r \in Range(batches[b].reqs) :
                            LET v == batches[b].values[SlotOf(r)] IN
                            /\ requests[r].val = v
                            /\ requests[r].state =
                                   IF IsError(v) THEN "rejected" ELSE "resolved"
                   ELSE \A r \in Range(batches[b].reqs) :
                            /\ requests[r].state = "rejected"
                            /\ requests[r].val = ArityError

\* C26 happens: with unique on, three requests for two keys were answered with
\* three values, and all three were rejected with the arity error.
C26_Witness ==
    /\ unique
    /\ \E b \in Batches :
           /\ batches[b].status = "returned"
           /\ Len(batches[b].reqs) = 3
           /\ DistinctKeys(b) = 2
           /\ Len(batches[b].values) = 3
           /\ \A i \in 1..3 : ~IsError(batches[b].values[i])
           /\ \A r \in Range(batches[b].reqs) : requests[r].val = ArityError

\* C27: the cache map is written only with the cache on, by a flush, with the
\* value that the slot of the key holds in the flush's result, never an Error,
\* and before the requests of that slot are resolved; with the cache off no
\* flush writes it.
C27_CacheWrittenOnlyOnSuccess ==
    /\ \A j \in 1..Len(log) :
           log[j].type = "set"
               => /\ cache
                  /\ \E i \in 1..Len(batches[log[j].batch].values) :
                         /\ i <= Len(batches[log[j].batch].keys)
                         /\ batches[log[j].batch].keys[i] = log[j].key
                         /\ batches[log[j].batch].values[i] = log[j].val
                         /\ ~IsError(log[j].val)
    /\ \A j \in 1..Len(log) :
           (cache /\ log[j].type = "resolve")
               => \E h \in 1..(j - 1) :
                      /\ log[h].type = "set" /\ log[h].batch = log[j].batch
                      /\ log[h].key = log[j].key /\ log[h].val = log[j].val
    /\ ~cache => cacheMap = EmptyMap

\* The place in the log of the first resolve or reject call for request r.
FirstSettle(r) ==
    CHOOSE j \in 1..Len(log) :
        /\ log[j].req = r /\ log[j].type # "set"
        /\ \A h \in 1..(j - 1) : ~(log[h].req = r /\ log[h].type # "set")

\* Request r1 comes before r2 in the order of the loadFn call's keys: with
\* unique off the earlier request; with unique on the one whose key was seen
\* first in the batch, and of two requests for one key the earlier.
SettlesBefore(b, r1, r2) ==
    IF unique /\ requests[r1].key # requests[r2].key
    THEN FirstSeen(b, requests[r1].key) < FirstSeen(b, requests[r2].key)
    ELSE r1 < r2

\* C28: the requests of an answered batch are settled in the order of the keys
\* sent: in the order they were made with unique off; with unique on key by
\* key in first-seen order, the requests of one key in the order they were made
\* and all of them before any request of the next key.
C28_SettleOrder ==
    \A b \in Batches :
        batches[b].status = "returned"
            => \A r1 \in Range(batches[b].reqs), r2 \in Range(batches[b].reqs) :
                   r1 # r2
                       => /\ \E j \in 1..Len(log) : log[j].req = r1 /\ log[j].type # "set"
                          /\ SettlesBefore(b, r1, r2) <=> FirstSettle(r1) < FirstSettle(r2)

\* C28 happens: with unique on, the first and third request of a batch asked
\* for one key and the second for another, so that the third was settled before
\* the second.
C28_Witness ==
    /\ unique
    /\ \E b \in Batches :
           LET rs == batches[b].reqs IN
           /\ batches[b].status = "returned"
           /\ Len(rs) = 3
           /\ requests[rs[1]].key = requests[rs[3]].key
           /\ requests[rs[1]].key # requests[rs[2]].key
           /\ FirstSettle(rs[3]) < FirstSettle(rs[2])

\* C29: the step that starts a flush, and no other, stamps the time of the last
\* flush: in it the whole queue is drained, the time since the last flush is 0,
\* and the new loadFn call is outstanding, not answered; a loadSingle or
\* loadMultiple, a clear and the answer or failure of a loadFn call leave the
\* stamp where it was; and otherwise the time since the stamp only grows.
C29_StampOnlyAtFlush ==
    [][/\ Len(batches') > Len(batches)
           => /\ timeAfterLastExecution' = 0
              /\ pendingKeys' = <<>>
              /\ Len(batches') = Len(batches) + 1
              /\ batches'[Len(batches')].reqs = pendingKeys
              /\ batches'[Len(batches')].status = "inflight"
              /\ batches'[Len(batches')].gap = timeAfterLastExecution
       /\ (\/ Len(requests') > Len(requests)
           \/ clears' # clears
           \/ \E b \in 1..Len(batches) : batches'[b].status # batches[b].status)
           => timeAfterLastExecution' = timeAfterLastExecution
       /\ Len(batches') = Len(batches)
           => timeAfterLastExecution' >= timeAfterLastExecution]_vars

\* C29 happens: a flush was started some time after the construction, and
\* before any more time passed its loadFn call was answered, a clear was made
\* and a request was pushed.
C29_Witness ==
    /\ Len(batches) >= 1
    /\ batches[Len(batches)].gap > 0
    /\ batches[Len(batches)].status = "returned"
    /\ clears > 0
    /\ pendingKeys # <<>>
    /\ timeAfterLastExecution = 0

\* C30: batches are outstanding side by side and answered in any order, and a
\* request is settled by its own batch alone: every resolve and reject of it is
\* made by the flush that drained it, it stays pending as long as that flush's
\* loadFn call is outstanding, whatever other batches with the same key have
\* returned, and it ends with what its own batch's result holds in its own
\* key's slot (the arity error when that result has the wrong length).
C30_SettledByOwnBatch ==
    /\ \A j \in 1..Len(log) :
           log[j].type # "set" => log[j].batch = requests[log[j].req].batch
    /\ \A r \in Missed :
           /\ (requests[r].batch = 0 \/ ~Processed(r)) => requests[r].state = "pending"
           /\ (requests[r].batch # 0 /\ batches[requests[r].batch].status = "returned")
                  => requests[r].val =
                         IF Mismatched(requests[r].batch)
                         THEN ArityError
                         ELSE batches[requests[r].batch].values[SlotOf(r)]

\* C30 happens: two batches that both hold key 1 were outstanding together; the
\* later one was answered first and settled its request, the earlier one's
\* request is still pending.
C30_Witness ==
    /\ Len(batches) = 2
    /\ batches[1].status = "inflight"
    /\ batches[2].status = "returned"
    /\ ~Mismatched(2)
    /\ \E r1 \in Range(batches[1].reqs), r2 \in Range(batches[2].reqs) :
           /\ requests[r1].key = requests[r2].key
           /\ requests[r1].state = "pending"
           /\ requests[r2].state # "pending"
           /\ requests[r2].val.call = 2

\* The slots of batch b's key list that ask for key k and that the loop over
\* the result treated as a value: what it read there was not an Error.
ValueSlots(b, k, values) ==
    {i \in 1..Len(batches[b].keys) :
        batches[b].keys[i] = k /\ ~IsError(SlotValue(values, i))}

\* The first entry the flush of batch b wrote to the log.
CompletedAt(b) == CHOOSE j \in 1..Len(log) : log[j].batch = b /\ \A h \in 1..(j - 1) : log[h].batch # b

\* C31: with the cache on, the answer to a loadFn call leaves under every key
\* it holds a value for the value of the last such slot, whatever was cached
\* before and whichever batch was flushed first, and leaves the other keys as
\* they were; no other step adds or changes a cache entry. So when two batches
\* that overlap both brought a value for key k and nothing was cleared, the
\* cache holds the value of the one answered last.
C31_LastCompletedWins ==
    /\ [](\A b1 \in Batches, b2 \in Batches, k \in Keys :
             (/\ cache /\ clears = 0 /\ b1 # b2
              /\ batches[b1].status = "returned" /\ batches[b2].status = "returned"
              /\ ValueSlots(b1, k, batches[b1].values) # {}
              /\ ValueSlots(b2, k, batches[b2].values) # {}
              /\ CompletedAt(b1) > CompletedAt(b2))
                 => /\ k \in DOMAIN cacheMap
                    /\ \E i \in ValueSlots(b1, k, batches[b1].values) :
                           cacheMap[k] = SlotValue(batches[b1].values, i))
    /\ [][ /\ \A b \in Batches, k \in Keys :
               (batches[b].status = "inflight" /\ batches'[b].status = "returned")
                   => LET slots == ValueSlots(b, k, batches'[b].values) IN
                      IF cache /\ slots # {}
                      THEN /\ k \in DOMAIN cacheMap'
                           /\ cacheMap'[k] = SlotValue(batches'[b].values,
                                  CHOOSE i \in slots : \A j \in slots : j <= i)
                      ELSE /\ k \in DOMAIN cacheMap' <=> k \in DOMAIN cacheMap
                           /\ k \in DOMAIN cacheMap => cacheMap'[k] = cacheMap[k]
           /\ (\A b \in Batches : batches[b].status = "inflight" => batches'[b].status # "returned")
                   => \A k \in DOMAIN cacheMap' :
                          k \in DOMAIN cacheMap /\ cacheMap'[k] = cacheMap[k]]_vars

\* C31 happens: two batches with key 1 were outstanding together, the later
\* one was answered first, both with a value for the key, and the cache holds
\* the value the earlier batch brought.
C31_Witness ==
    /\ cache
    /\ Len(batches) = 2
    /\ batches[1].status = "returned"
    /\ batches[2].status = "returned"
    /\ ValueSlots(1, 1, batches[1].values) # {}
    /\ ValueSlots(2, 1, batches[2].values) # {}
    /\ ~Mismatched(1) /\ ~Mismatched(2)
    /\ CompletedAt(2) < CompletedAt(1)
    /\ 1 \in DOMAIN cacheMap
    /\ cacheMap[1].call = 1

\* How often request r occurs in the sequence of requests rs.
Occurrences(rs, r) == Cardinality({i \in 1..Len(rs) : rs[i] = r})

\* C32: the queue changes in two ways only: a loadSingle or loadMultiple
\* appends its requests that missed the cache at the tail, in the order they
\* were made, and a flush takes the whole queue, as it stands, for its batch.
\* So the queue holds, once each and in the order they were made, exactly the
\* requests that missed the cache and were not flushed yet, and a flushed
\* request is in one batch, once.
C32_QueueAppendOrDrain ==
    /\ [](/\ \A i \in 1..Len(pendingKeys), j \in 1..Len(pendingKeys) :
                i < j => pendingKeys[i] < pendingKeys[j]
          /\ \A r \in Missed :
                IF requests[r].batch = 0
                THEN /\ Occurrences(pendingKeys, r) = 1
                     /\ \A b \in Batches : Occurrences(batches[b].reqs, r) = 0
                ELSE /\ Occurrences(pendingKeys, r) = 0
                     /\ \A b \in Batches :
                            Occurrences(batches[b].reqs, r)
                                = IF b = requests[r].batch THEN 1 ELSE 0
          /\ \A r \in Reqs \ Missed :
                /\ Occurrences(pendingKeys, r) = 0
                /\ \A b \in Batches : Occurrences(batches[b].reqs, r) = 0)
    /\ [][pendingKeys' # pendingKeys
              => \/ /\ Len(requests') > Len(requests)
                    /\ Len(batches') = Len(batches)
                    /\ pendingKeys' = pendingKeys
                           \o SelectSeq([i \in 1..(Len(requests') - Len(requests)) |->
                                             Len(requests) + i],
                                        LAMBDA r : ~requests'[r].cached)
                 \/ /\ Len(batches') = Len(batches) + 1
                    /\ Len(requests') = Len(requests)
                    /\ pendingKeys' = <<>>
                    /\ batches'[Len(batches')].reqs = pendingKeys]_vars

\* C32 happens: a queue of two requests stands while an earlier queue has been
\* flushed and its loadFn call is outstanding.
C32_Witness ==
    /\ Len(pendingKeys) = 2
    /\ Len(batches) >= 1
    /\ Len(batches[1].reqs) >= 1
    /\ batches[1].status = "inflight"

====
